---- MODULE Spec2Model ----
(***************************************************************************)
(* Model of src/src/rsgi/http.rs: the RSGI dispatchers handle_rtt,         *)
(* handle_rtb, handle_rtt_ws and handle_rtb_ws.  One behaviour is the      *)
(* dispatch of one request: the dispatcher task, the spawned WS session    *)
(* task, the application callback and the capacity-one reply channel       *)
(* (tokio mpsc) between them.                                              *)
(***************************************************************************)
EXTENDS Integers, Sequences, FiniteSets, TLC

VARIABLES fn, req, pc, scope, httpRes, got, returned,
          task, wsRes, cbSent, taskMsg, taskSends,
          buf, closed, restx, txref, enq, sent, events

vars == <<fn, req, pc, scope, httpRes, got, returned,
          task, wsRes, cbSent, taskMsg, taskSends,
          buf, closed, restx, txref, enq, sent, events>>

\* ------------------------------------------------------------------ bounds
\* number of distinct negotiation errors ws_upgrade may report
NumErrs == 2
\* callback statuses are drawn from the base values shifted by k * 2^16,
\* k in -MaxWrap..MaxWrap (all inside the callback's i32)
MaxWrap == 1

\* ------------------------------------------------------- program constants
\* mpsc::channel(1)
Capacity == 1
\* width of the `status as u16` cast
U16 == 65536
\* StatusCode::from_u16 accepts 100..=999
MinStatus == 100
MaxStatus == 999
\* StatusCode::FORBIDDEN, BAD_REQUEST, SWITCHING_PROTOCOLS, response_500
FORBIDDEN == 403
BAD_REQUEST == 400
SWITCHING_PROTOCOLS == 101
INTERNAL_SERVER_ERROR == 500

\* --------------------------------------------------------------- responses
\* A response: status, which header set it carries ("server" = the fixed
\* HK_SERVER/HV_SERVER pair, "handshake" = the upgrade headers, "callback" =
\* whatever the callback's builder holds) and its body.
Resp(s, h, b) == [status |-> s, hdr |-> h, body |-> b]

NoResp == Resp(0, "", "")

\* crate::http::response_500
response_500 == Resp(INTERNAL_SERVER_ERROR, "server", "")

\* the provisional response ws_upgrade hands to UpgradeData
HandshakeRes == Resp(SWITCHING_PROTOCOLS, "handshake", "")

\* ------------------------------------------------------------------ inputs
Dispatchers == {"handle_rtt", "handle_rtb", "handle_rtt_ws", "handle_rtb_ws"}

WsCapable(f) == f \in {"handle_rtt_ws", "handle_rtb_ws"}

Errs == 1..NumErrs

\* format!("{}", err): the Display text of negotiation error e
ErrText(e) == IF e = 1 THEN "missing Sec-WebSocket-Key"
              ELSE IF e = 2 THEN "unsupported Sec-WebSocket-Version"
              ELSE "handshake error"

\* a request: is_ws_upgrade(&req) and the outcome of ws_upgrade(req, None)
\* (hs = 0: Ok((res, ws)), hs = e > 0: Err(e))
Requests == [upgrade : BOOLEAN, hs : {0} \cup Errs]

\* what the plain-HTTP callback may hand back
NoHttpRes == [kind |-> "none", mode |-> "Body", builder |-> "ok", body |-> "", file |-> "None"]

HttpErr == [kind |-> "err", mode |-> "Body", builder |-> "ok", body |-> "", file |-> "None"]

HttpResults ==
    {HttpErr} \cup
    [kind : {"ok"}, mode : {"Body", "File"}, builder : {"ok", "bad"},
     body : {"", "hello"}, file : {"None", "missing", "readable"}]

\* what the WebSocket callback may hand back
BaseStatuses == {0, 99, 100, 101, 403, 999, 1000, 65535}

Statuses == {s + k * U16 : s \in BaseStatuses, k \in (0 - MaxWrap)..MaxWrap}

NoWsRes == [kind |-> "none", status |-> 0, consumed |-> FALSE]

WsErr == [kind |-> "err", status |-> 0, consumed |-> FALSE]

WsResults == {WsErr} \cup [kind : {"ok"}, status : Statuses, consumed : BOOLEAN]


\* ------------------------------------------------------ pure code fragments
\* `status as u16`: truncation of the callback's i32 to 16 bits
AsU16(status) == status % U16

\* mutant: the lower end of the valid range is excluded
StatusFromU16_OffByOne(n) == IF n > MinStatus /\ n <= MaxStatus THEN n ELSE FORBIDDEN

\* StatusCode::from_u16(n).unwrap_or(StatusCode::FORBIDDEN)
StatusFromU16(n) == IF n >= MinStatus /\ n <= MaxStatus THEN n ELSE FORBIDDEN

\* the response built at lines 117-124 from the callback's status
StatusResponse(status) == Resp(StatusFromU16(AsU16(status)), "server", "")

\* mutant: the task replies without looking at consumed
TaskReply_IgnoresConsumed(r) ==
    IF r.kind = "ok" THEN <<StatusResponse(r.status)>> ELSE <<response_500>>

\* the send attempts the session task makes after the callback returned r
\* (lines 114-131): none when consumed, the status response when not
\* consumed, response_500 when the callback failed
TaskReply(r) ==
    IF r.kind = "ok"
    THEN IF ~r.consumed THEN <<StatusResponse(r.status)>> ELSE <<>>
    ELSE <<response_500>>

\* mutant: the negotiation error is answered like every other failure
UpgradeErrResponse_Opaque(err) == response_500

\* the response of the failed-handshake branch (lines 142-148)
UpgradeErrResponse(err) == Resp(BAD_REQUEST, "server", ErrText(err))

\* File::open(file_path).await.unwrap() and pyres.file.unwrap(): TRUE when
\* materializing r raises a panic (lines 26 and 55)
MaterializePanics(r) ==
    r.kind = "ok" /\ r.mode = "File" /\ r.file \in {"None", "missing"}

\* mutant: the payload is not attached to the builder
BuilderBody_DropsPayload(r, b) == IF r.builder = "ok" THEN Resp(200, "callback", "") ELSE response_500

\* pyres.inner.body(b): Err when the builder holds a malformed status/header
BuilderBody(r, b) == IF r.builder = "ok" THEN Resp(200, "callback", b) ELSE response_500

\* mutant: a failed callback is answered with an empty success response
HttpResponseOf_ErrAsOk(r) ==
    IF r.kind = "ok"
    THEN IF r.mode = "Body" THEN BuilderBody(r, r.body)
                            ELSE BuilderBody(r, "filedata")
    ELSE Resp(200, "server", "")

\* handle_http_response (lines 48-64) for a result that does not panic
HttpResponseOf(r) ==
    IF r.kind = "ok"
    THEN IF r.mode = "Body" THEN BuilderBody(r, r.body)
                            ELSE BuilderBody(r, "filedata")
    ELSE response_500

\* ------------------------------------------------------- the reply channel
Held(tx) == tx = "held"

\* no Sender handle is alive
NoSenders(a, b) == ~Held(a) /\ ~Held(b)

\* mutant: the original sender moved into the callback is never released,
\* so the receiver only sees the task's clone go away
RecvNone_LeakedSender(q, a, b) == q = <<>> /\ a = "none" /\ ~Held(b)

\* Receiver::recv resolves to None: queue empty and every sender dropped
RecvNone(q, a, b) == q = <<>> /\ NoSenders(a, b)

\* Sender::send obtains a permit: the slot is free
SendReady == ~closed /\ Len(buf) < Capacity

\* Sender::send waits for a permit
SendBlocked == ~closed /\ Len(buf) >= Capacity

Log(e) == events' = events \o e

\* the protocol tag default_scope! gives a new scope (line 34)
default_proto == "http"

\* mutant: the tag is left as it was
set_proto_Noop(tag, proto) == tag

\* scope.set_proto(proto) (line 97)
set_proto(tag, proto) == proto

\* ----------------------------------------------------------------- Init
Init ==
    /\ fn \in Dispatchers
    /\ req \in Requests
    /\ pc = "start"
    /\ scope = "none"
    /\ httpRes = NoHttpRes
    /\ got = NoResp
    /\ returned = <<>>
    /\ task = "none"
    /\ wsRes = NoWsRes
    /\ cbSent = FALSE
    /\ taskMsg = NoResp
    /\ taskSends = 0
    /\ buf = <<>>
    /\ closed = FALSE
    /\ restx = "none"
    /\ txref = "none"
    /\ enq = 0
    /\ sent = <<>>
    /\ events = <<>>

ChanVars == <<buf, closed, restx, txref, enq, sent>>

TaskVars == <<task, wsRes, cbSent, taskMsg, taskSends>>

\* ------------------------------------------------------- dispatcher steps
\* default_scope! (lines 78, 94)
BuildScope ==
    /\ pc = "start"
    /\ scope' = default_proto
    /\ pc' = "scoped"
    /\ Log(<<"scope">>)
    /\ UNCHANGED <<fn, req, httpRes, got, returned>>
    /\ UNCHANGED TaskVars
    /\ UNCHANGED ChanVars

\* mutant: a ws-capable dispatcher treats every request as an upgrade
TakesUpgradeBranch_AnyRequest(f, r) == WsCapable(f)

\* mutant: the upgrade check is missing
TakesUpgradeBranch_Never(f, r) == FALSE

\* dispatcher f enters the `if is_ws_upgrade(&req)` branch (line 96) for
\* request r; handle_request (lines 68-82) has no such branch
TakesUpgradeBranch(f, r) == WsCapable(f) /\ r.upgrade

\* line 79, and line 152 when is_ws_upgrade(&req) is false: the plain-HTTP
\* callback is invoked and awaited
InvokeHttp ==
    /\ pc = "scoped"
    /\ ~TakesUpgradeBranch(fn, req)
    /\ pc' = "http_call"
    /\ Log(<<"http_call">>)
    /\ UNCHANGED <<fn, req, scope, httpRes, got, returned>>
    /\ UNCHANGED TaskVars
    /\ UNCHANGED ChanVars

\* lines 96-99, 142-148: upgrade attempt whose handshake fails
UpgradeFail ==
    /\ pc = "scoped"
    /\ TakesUpgradeBranch(fn, req)
    /\ req.hs # 0
    /\ scope' = set_proto(scope, "ws")
    /\ returned' = Append(returned, UpgradeErrResponse(req.hs))
    /\ pc' = "done"
    /\ Log(<<"set_proto", "handshake_err", "return">>)
    /\ UNCHANGED <<fn, req, httpRes, got>>
    /\ UNCHANGED TaskVars
    /\ UNCHANGED ChanVars

\* mutant: the session task is spawned before the handshake is attempted
UpgradeOkSteps_SpawnFirst == <<"set_proto", "spawn", "handshake_ok", "channel", "recv">>

\* the order of the statements of the successful upgrade branch: line 97,
\* lines 99-100, line 102, line 104, line 134
UpgradeOkSteps == <<"set_proto", "handshake_ok", "channel", "spawn", "recv">>

\* lines 96-104, 134: upgrade attempt whose handshake succeeds; the channel
\* is created, the session task spawned and the receive started
UpgradeOk ==
    /\ pc = "scoped"
    /\ TakesUpgradeBranch(fn, req)
    /\ req.hs = 0
    /\ scope' = set_proto(scope, "ws")
    /\ restx' = "held"
    /\ task' = "spawned"
    /\ pc' = "recv"
    /\ Log(UpgradeOkSteps)
    /\ UNCHANGED <<fn, req, httpRes, got, returned>>
    /\ UNCHANGED <<wsRes, cbSent, taskMsg, taskSends>>
    /\ UNCHANGED <<buf, closed, txref, enq, sent>>

\* the plain-HTTP callback returns r (line 48)
HttpCallbackReturn(r) ==
    /\ pc = "http_call"
    /\ httpRes' = r
    /\ pc' = "materialize"
    /\ Log(<<"http_return">>)
    /\ UNCHANGED <<fn, req, scope, got, returned>>
    /\ UNCHANGED TaskVars
    /\ UNCHANGED ChanVars

\* lines 49-64: the match on the callback's result
Materialize ==
    /\ pc = "materialize"
    /\ IF MaterializePanics(httpRes)
       THEN /\ pc' = "panicked"
            /\ Log(<<"materialize", "panic">>)
            /\ UNCHANGED returned
       ELSE /\ pc' = "done"
            /\ returned' = Append(returned, HttpResponseOf(httpRes))
            /\ Log(IF httpRes.kind = "ok" THEN <<"materialize", "return">>
                                          ELSE <<"return">>)
    /\ UNCHANGED <<fn, req, scope, httpRes, got>>
    /\ UNCHANGED TaskVars
    /\ UNCHANGED ChanVars

\* mutant: the receive also waits for the session task to end
RecvSomeReady_JoinsTask(q, t) == q # <<>> /\ t \in {"done", "aborted"}

\* Receiver::recv resolves to Some: a value is queued, whatever the state t
\* of the session task
RecvSomeReady(q, t) == q # <<>>

\* resrx.recv().await resolves with Some(res) (lines 134-135)
RecvSome ==
    /\ pc = "recv"
    /\ RecvSomeReady(buf, task)
    /\ got' = Head(buf)
    /\ buf' = Tail(buf)
    /\ pc' = "close"
    /\ Log(<<"recv_some">>)
    /\ UNCHANGED <<fn, req, scope, httpRes, returned>>
    /\ UNCHANGED TaskVars
    /\ UNCHANGED <<closed, restx, txref, enq, sent>>

\* resrx.recv().await resolves with None (line 139); the receiver is dropped
\* on return
RecvNoneReturn ==
    /\ pc = "recv"
    /\ RecvNone(buf, restx, txref)
    /\ returned' = Append(returned, response_500)
    /\ closed' = TRUE
    /\ pc' = "done"
    /\ Log(<<"recv_none", "return">>)
    /\ UNCHANGED <<fn, req, scope, httpRes, got>>
    /\ UNCHANGED TaskVars
    /\ UNCHANGED <<buf, restx, txref, enq, sent>>

\* mutant: the dispatcher prefers a value still queued at close time
Delivered_Latest(res, q) == IF q # <<>> THEN q[Len(q)] ELSE res

\* the value the Some(res) arm evaluates to (lines 135-138): the received
\* res, whatever is queued in q when the channel is closed
Delivered(res, q) == res

\* resrx.close(); res (lines 136-137); the receiver is dropped on return and
\* whatever is still queued is discarded
CloseReturn ==
    /\ pc = "close"
    /\ closed' = TRUE
    /\ buf' = <<>>
    /\ returned' = Append(returned, Delivered(got, buf))
    /\ pc' = "done"
    /\ Log(<<"close", "return">>)
    /\ UNCHANGED <<fn, req, scope, httpRes, got>>
    /\ UNCHANGED TaskVars
    /\ UNCHANGED <<restx, txref, enq, sent>>

\* ------------------------------------------------------ session task steps
\* lines 105-113: clone the sender, invoke the WebSocket callback
TaskStart ==
    /\ task = "spawned"
    /\ txref' = "held"
    /\ task' = "callback"
    /\ Log(<<"ws_call">>)
    /\ UNCHANGED <<fn, req, pc, scope, httpRes, got, returned>>
    /\ UNCHANGED <<wsRes, cbSent, taskMsg, taskSends>>
    /\ UNCHANGED <<buf, closed, restx, enq, sent>>

\* the callback accepts the connection: UpgradeData sends the handshake
\* response through restx, which it gives up
CallbackAccept ==
    /\ task = "callback"
    /\ Held(restx)
    /\ ~SendBlocked
    /\ cbSent' = TRUE
    /\ restx' = "dropped"
    /\ IF SendReady
       THEN /\ buf' = Append(buf, HandshakeRes)
            /\ enq' = enq + 1
            /\ sent' = Append(sent, HandshakeRes)
       ELSE UNCHANGED <<buf, enq, sent>>
    /\ Log(<<"accept">>)
    /\ UNCHANGED <<fn, req, pc, scope, httpRes, got, returned>>
    /\ UNCHANGED <<task, wsRes, taskMsg, taskSends>>
    /\ UNCHANGED <<closed, txref>>

\* the callback's result contract: consumed reports whether the callback
\* transmitted the handshake response itself
WsContract(r) == r.kind = "ok" => r.consumed = cbSent

\* the WebSocket callback returns r (lines 107-113) and the task takes its
\* branch of the match (lines 114-131)
WsCallbackReturn(r) ==
    /\ task = "callback"
    /\ WsContract(r)
    /\ wsRes' = r
    /\ restx' = "dropped"
    /\ IF TaskReply(r) # <<>>
       THEN /\ taskMsg' = Head(TaskReply(r))
            /\ taskSends' = taskSends + 1
            /\ task' = "send"
            /\ UNCHANGED txref
       ELSE /\ task' = "done"
            /\ txref' = "dropped"
            /\ UNCHANGED <<taskMsg, taskSends>>
    /\ Log(<<"ws_return">>)
    /\ UNCHANGED <<fn, req, pc, scope, httpRes, got, returned>>
    /\ UNCHANGED cbSent
    /\ UNCHANGED <<buf, closed, enq, sent>>

\* tx_ref.send(..).await resolves (lines 116-125, 129): the value is queued
\* when a permit is free, the send fails when the receiver is closed
TaskSend ==
    /\ task = "send"
    /\ ~SendBlocked
    /\ IF SendReady
       THEN /\ buf' = Append(buf, taskMsg)
            /\ enq' = enq + 1
            /\ sent' = Append(sent, taskMsg)
       ELSE UNCHANGED <<buf, enq, sent>>
    /\ task' = "done"
    /\ txref' = "dropped"
    /\ Log(<<"task_send">>)
    /\ UNCHANGED <<fn, req, pc, scope, httpRes, got, returned>>
    /\ UNCHANGED <<wsRes, cbSent, taskMsg, taskSends>>
    /\ UNCHANGED <<closed, restx>>

\* the task is dropped at a suspension point (runtime shutdown, or a panic
\* inside the callback): everything it owns is dropped with it
TaskAbort ==
    /\ \/ task \in {"spawned", "callback"}
       \/ task = "send" /\ SendBlocked
    /\ task' = "aborted"
    /\ restx' = "dropped"
    /\ txref' = IF Held(txref) THEN "dropped" ELSE txref
    /\ Log(<<"abort">>)
    /\ UNCHANGED <<fn, req, pc, scope, httpRes, got, returned>>
    /\ UNCHANGED <<wsRes, cbSent, taskMsg, taskSends>>
    /\ UNCHANGED <<buf, closed, enq, sent>>

Next ==
    \/ BuildScope
    \/ InvokeHttp
    \/ UpgradeFail
    \/ UpgradeOk
    \/ \E r \in HttpResults : HttpCallbackReturn(r)
    \/ Materialize
    \/ RecvSome
    \/ RecvNoneReturn
    \/ CloseReturn
    \/ TaskStart
    \/ CallbackAccept
    \/ \E r \in WsResults : WsCallbackReturn(r)
    \/ TaskSend
    \/ TaskAbort

Spec == Init /\ [][Next]_vars


\* the dispatcher's own steps are scheduled fairly: a receive that can
\* resolve does resolve, and the synchronous close-and-return follows it
FairSpec ==
    /\ Spec
    /\ WF_vars(RecvSome)
    /\ WF_vars(RecvNoneReturn)
    /\ WF_vars(CloseReturn)

\* ------------------------------------------------------------------ claims
CallbackFailed == httpRes.kind = "err" \/ wsRes.kind = "err"

UpgradePath == WsCapable(fn) /\ req.upgrade

ValidStatus(s) == s >= MinStatus /\ s <= MaxStatus

\* C1: every dispatch ends by returning exactly one response: never more
\* than one, never a panic in place of a response, and a finished dispatch
\* has returned one.
C1_ExactlyOneResponse ==
    /\ pc # "panicked"
    /\ Len(returned) <= 1
    /\ pc = "done" => Len(returned) = 1

\* C2 (as stated): whenever the callback invocation failed, the response the
\* dispatcher returned is the fixed 500 fallback, whatever the callback did
\* before failing.
C2_FailedCallback500 ==
    (pc = "done" /\ CallbackFailed) => returned = <<response_500>>

\* C2 (amended): a failed callback that sent nothing on the reply channel
\* before failing yields the fixed 500 fallback; a WebSocket callback that
\* transmitted the handshake response before failing yields that handshake
\* response, the first value on the channel.
C2_FailedCallback500UnlessSent ==
    /\ (pc = "done" /\ CallbackFailed /\ ~cbSent) => returned = <<response_500>>
    /\ (pc = "done" /\ wsRes.kind = "err" /\ cbSent) => returned = <<HandshakeRes>>

C2_Witness ==
    /\ pc = "done"
    /\ wsRes.kind = "err"
    /\ ~cbSent
    /\ returned = <<response_500>>

\* C3: a File-mode descriptor whose file cannot be opened is answered with
\* the fixed 500 fallback; the dispatch does not crash.
C3_FileOpenFailure500 ==
    (httpRes.kind = "ok" /\ httpRes.mode = "File" /\ httpRes.file = "missing"
        /\ pc # "materialize")
    => (pc = "done" /\ returned = <<response_500>>)

\* C4: an upgrade attempt whose handshake fails is answered with exactly one
\* response: status 400, the fixed server header, and the negotiation
\* error's text as the body.
C4_HandshakeFailure400 ==
    (UpgradePath /\ req.hs # 0 /\ pc \notin {"start", "scoped"})
    => (pc = "done" /\ returned = <<Resp(BAD_REQUEST, "server", ErrText(req.hs))>>)

C4_Witness ==
    /\ UpgradePath
    /\ req.hs = 2
    /\ pc = "done"
    /\ Len(returned) = 1
    /\ returned[1].status = BAD_REQUEST
    /\ returned[1].body = "unsupported Sec-WebSocket-Version"

\* C5: the reply channel carries at most one value over its lifetime; no
\* second value is ever enqueued.
C5_AtMostOneValue == enq <= 1

\* C6: when the session task has ended, the reply channel has received
\* exactly one value, or none if the task was aborted before any send.
C6_ExactlyOneValue ==
    task \in {"done", "aborted"} => (enq = 1 \/ (enq = 0 /\ task = "aborted"))

\* C7: when the WebSocket callback returned consumed = true, the session
\* task makes no send attempt through its cloned sender.
C7_ConsumedNoTaskSend ==
    (wsRes.kind = "ok" /\ wsRes.consumed) => (taskSends = 0 /\ task = "done")

C7_Witness ==
    /\ wsRes.kind = "ok"
    /\ wsRes.consumed
    /\ task = "done"
    /\ pc = "done"
    /\ enq = 1

\* C8: when the WebSocket callback returned (status, consumed = false) with
\* a valid status, the response the dispatcher returns has that status.
C8_StatusDelivered ==
    (pc = "done" /\ wsRes.kind = "ok" /\ ~wsRes.consumed /\ ValidStatus(wsRes.status))
    => (Len(returned) = 1 /\ returned[1].status = wsRes.status)

C8_Witness ==
    /\ pc = "done"
    /\ wsRes.kind = "ok"
    /\ ~wsRes.consumed
    /\ wsRes.status = SWITCHING_PROTOCOLS
    /\ Len(returned) = 1
    /\ returned[1].status = SWITCHING_PROTOCOLS

\* C9: once the session task has ended without any value ever sent on the
\* reply channel, the dispatcher eventually returns the fixed 500 fallback.
C9_NoValueLeadsTo500 ==
    (task \in {"done", "aborted"} /\ enq = 0)
    ~> (pc = "done" /\ returned = <<response_500>>)

C9_Witness ==
    /\ task = "aborted"
    /\ enq = 0
    /\ pc = "done"
    /\ returned = <<response_500>>

\* C10: with consumed = false the response the task sends has status 403
\* for every returned status outside the valid range, and the returned
\* status itself when it is inside the range.
C10_OutOfRange403 ==
    (wsRes.kind = "ok" /\ ~wsRes.consumed)
    => taskMsg.status = (IF ValidStatus(wsRes.status) THEN wsRes.status ELSE FORBIDDEN)


\* C11: a successful Body-mode result is answered with the callback's
\* builder carrying the in-memory payload verbatim; when building the
\* response from the builder fails, in Body mode or in File mode (the file
\* having been opened), the fixed 500 fallback is returned.
C11_BodyVerbatimOrFallback ==
    /\ (httpRes.kind = "ok" /\ httpRes.mode = "Body" /\ httpRes.builder = "ok"
            /\ pc # "materialize")
       => (pc = "done" /\ returned = <<Resp(200, "callback", httpRes.body)>>)
    /\ (httpRes.kind = "ok" /\ httpRes.builder = "bad"
            /\ (httpRes.mode = "Body" \/ httpRes.file = "readable")
            /\ pc # "materialize")
       => (pc = "done" /\ returned = <<response_500>>)

C11_Witness ==
    /\ httpRes.kind = "ok"
    /\ httpRes.mode = "Body"
    /\ httpRes.builder = "ok"
    /\ httpRes.body = "hello"
    /\ pc = "done"
    /\ Len(returned) = 1
    /\ returned[1].body = "hello"


\* C12: once the dispatcher has taken its value from the reply channel, no
\* further send enqueues anything and no sender is left waiting for a
\* permit.
C12_SendAfterRecvIsNoop ==
    [][(pc \in {"close", "done"}) => (enq' = enq /\ ~(task = "send" /\ SendBlocked))]_vars


\* number of occurrences of event e in the log
Count(e) == Cardinality({i \in DOMAIN events : events[i] = e})

CallbackInvoked == Count("http_call") + Count("ws_call") > 0

\* C13: the protocol tag is "http" when the scope is built, is rewritten to
\* "ws" at most once, only by a ws-capable dispatcher that detected an
\* upgrade attempt and only before any callback is invoked; once a callback
\* has been invoked it never changes, so the plain-HTTP callback sees "http"
\* and the WebSocket callback sees "ws".
C13_ProtoTag ==
    /\ [] (Count("set_proto") <= 1)
    /\ [] ((pc \in {"http_call", "materialize"}) => scope = "http")
    /\ [] ((task # "none") => scope = "ws")
    /\ [][ /\ (scope = "none" /\ scope' # "none") => scope' = "http"
           /\ (scope # "none" /\ scope' # scope)
              => (scope = "http" /\ scope' = "ws" /\ UpgradePath /\ ~CallbackInvoked)
           /\ CallbackInvoked => scope' = scope ]_vars

C13_Witness ==
    /\ scope = "ws"
    /\ task = "callback"
    /\ Count("set_proto") = 1
    /\ Count("ws_call") = 1


\* every occurrence of event b in the log comes after an occurrence of a
Before(a, b) ==
    \A j \in DOMAIN events :
        events[j] = b => \E i \in 1..(j - 1) : events[i] = a

\* C14: within one request the scope is built before any callback is
\* invoked and a callback has returned before its response is materialized;
\* on the upgrade path the handshake artifacts and the reply channel exist
\* before the session task is spawned, and the task is spawned before the
\* dispatcher starts its receive.
C14_Ordering ==
    /\ Before("scope", "http_call")
    /\ Before("scope", "ws_call")
    /\ Before("http_call", "http_return")
    /\ Before("http_return", "materialize")
    /\ Before("ws_call", "ws_return")
    /\ Before("ws_return", "task_send")
    /\ Before("handshake_ok", "spawn")
    /\ Before("channel", "spawn")
    /\ Before("spawn", "recv")
    /\ Before("spawn", "ws_call")

C14_Witness ==
    /\ pc = "done"
    /\ task = "done"
    /\ Count("spawn") = 1
    /\ Count("recv") = 1
    /\ Count("ws_return") = 1
    /\ Count("task_send") = 1


\* C15: the dispatcher's receive resolves as soon as a value is queued and
\* its close-and-return follows, whatever the session task is doing; the
\* dispatcher's return leaves the session task as it is, and a callback
\* still running after the return can still return and the task finish.
C15_TaskIndependent ==
    /\ [] ((pc = "recv" /\ buf # <<>>) => ENABLED RecvSome)
    /\ [] ((pc = "close") => ENABLED CloseReturn)
    /\ [] ((pc = "done" /\ task = "callback")
            => ENABLED (\E r \in WsResults : WsCallbackReturn(r)))
    /\ [] ((pc = "done" /\ task = "send") => ENABLED TaskSend)
    /\ [][(pc # "done" /\ pc' = "done") => task' = task]_vars

\* the dispatcher returned while the callback was running, and the callback
\* then ran to completion
C15_Witness ==
    /\ pc = "done"
    /\ task = "done"
    /\ wsRes.kind = "ok"
    /\ \E i, j \in DOMAIN events :
          i < j /\ events[i] = "return" /\ events[j] = "ws_return"


\* C16: for a request that is not an upgrade attempt, whichever of the four
\* dispatchers runs, the plain-HTTP callback is invoked once with a scope
\* tagged "http", nothing of the upgrade path is set up, and the callback's
\* outcome alone decides the result: the same panic or the same response.
C16_SameForAllDispatchers ==
    ~req.upgrade =>
        /\ pc \notin {"recv", "close"}
        /\ task = "none" /\ restx = "none" /\ Count("ws_call") = 0
        /\ (pc \in {"http_call", "materialize", "done", "panicked"})
           => (Count("http_call") = 1 /\ scope = "http")
        /\ (pc = "panicked")
           => (httpRes.kind = "ok" /\ httpRes.mode = "File" /\ httpRes.file # "readable")
        /\ (pc = "done")
           => returned =
                <<IF httpRes.kind = "ok" /\ httpRes.builder = "ok"
                  THEN Resp(200, "callback",
                            IF httpRes.mode = "Body" THEN httpRes.body ELSE "filedata")
                  ELSE response_500>>

C16_Witness ==
    /\ ~req.upgrade
    /\ fn = "handle_rtb_ws"
    /\ pc = "done"
    /\ httpRes.kind = "ok"
    /\ httpRes.mode = "File"
    /\ Len(returned) = 1
    /\ returned[1].body = "filedata"


\* every callback invocation eventually returns and every step of the
\* dispatcher and of the session task is scheduled fairly; the task is
\* dropped only by its environment, which is under no obligation
LiveSpec ==
    /\ Spec
    /\ WF_vars(BuildScope)
    /\ WF_vars(InvokeHttp)
    /\ WF_vars(UpgradeFail)
    /\ WF_vars(UpgradeOk)
    /\ WF_vars(\E r \in HttpResults : HttpCallbackReturn(r))
    /\ WF_vars(Materialize)
    /\ WF_vars(RecvSome)
    /\ WF_vars(RecvNoneReturn)
    /\ WF_vars(CloseReturn)
    /\ WF_vars(TaskStart)
    /\ WF_vars(\E r \in WsResults : WsCallbackReturn(r))
    /\ WF_vars(TaskSend)

\* C17: under fair scheduling with callbacks that return, every dispatch
\* eventually returns a response.
C17_EventuallyReturns == <>(pc = "done" /\ Len(returned) = 1)


\* C18: a dispatch invokes the application callback at most once and never
\* in both styles: the plain-HTTP callback only, for a request that is not
\* an upgrade attempt; the WebSocket callback only, and only from the
\* spawned session task, after a successful handshake in a ws-capable
\* dispatcher; no callback, no reply channel and no session task after a
\* failed handshake.
C18_OneCallbackStyle ==
    /\ Count("http_call") + Count("ws_call") <= 1
    /\ ~req.upgrade => Count("ws_call") = 0
    /\ (~req.upgrade /\ pc \notin {"start", "scoped"}) => Count("http_call") = 1
    /\ (UpgradePath /\ req.hs = 0) => Count("http_call") = 0
    /\ (UpgradePath /\ req.hs = 0 /\ pc \notin {"start", "scoped"})
       => (Count("spawn") = 1 /\ task # "none" /\ Before("spawn", "ws_call")
           /\ (task \notin {"spawned", "aborted"} => Count("ws_call") = 1))
    /\ (UpgradePath /\ req.hs # 0)
       => (Count("http_call") = 0 /\ Count("ws_call") = 0 /\ Count("channel") = 0
           /\ Count("spawn") = 0 /\ task = "none" /\ restx = "none" /\ txref = "none")

C18_Witness ==
    /\ UpgradePath
    /\ req.hs = 0
    /\ pc = "done"
    /\ task = "done"
    /\ Count("ws_call") = 1
    /\ Count("http_call") = 0


\* C19: on the upgrade path the response returned to the transport is the
\* first value enqueued on the reply channel, or the fixed 500 fallback when
\* none was ever enqueued; a value enqueued later is never delivered.
C19_FirstValueDelivered ==
    /\ enq = Len(sent)
    /\ (UpgradePath /\ req.hs = 0 /\ pc = "close") => (sent # <<>> /\ got = sent[1])
    /\ (UpgradePath /\ req.hs = 0 /\ pc = "done")
       => returned = <<IF sent = <<>> THEN response_500 ELSE sent[1]>>

\* two values were enqueued and the first was the one returned
C19_Witness ==
    /\ UpgradePath
    /\ req.hs = 0
    /\ pc = "done"
    /\ Len(sent) = 2
    /\ sent[2] # sent[1]
    /\ returned = <<sent[1]>>

====
